---- MODULE Spec2Model ----
(***************************************************************************)
(* A model of the limit order book of src/src/order_book.py (OrderBook:    *)
(* add_order, cancel_order, the queries) with the cancel/modify mixin of   *)
(* src/src/cancel_modify.py.  The matching engine (matching_engine.py),    *)
(* the Trade type (trade.py) and execute_market_order are not among the    *)
(* source files; they are modelled from sections 3, 4.1 and 4.2 of the     *)
(* specification.                                                          *)
(***************************************************************************)
EXTENDS Integers, Sequences, FiniteSets, TLC

\* ------------------------------------------------------------------ bounds
\* Order ids handed out by the caller: 1..MaxOrders, each used at most once.
MaxOrders == 3
\* Prices are 1..MaxPrice.
MaxPrice == 3
\* Quantities of admitted orders and of market orders are 1..MaxQty.
MaxQty == 2
\* modify_order may set a quantity as low as -NegQty.
NegQty == 1
\* At most MaxModifies calls of modify_order are made in one run.
MaxModifies == 1

Ids == 1..MaxOrders
Prices == 1..MaxPrice
Qtys == 1..MaxQty
\* An optional value: None is the empty sequence, a given value v is <<v>>.
None == <<>>
Some(v) == <<v>>
\* new_price / new_quantity of modify_order: absent, or any number the caller
\* passes (the code checks neither sign nor range).
NewPrices == {None} \cup {Some(p) : p \in Prices}
NewQtys == {None} \cup {Some(q) : q \in (0 - NegQty)..MaxQty}

\* ------------------------------------------------------------------- state
VARIABLES
    bids,           \* OrderBook.bids: price key -> FIFO queue (deque) of orders
    asks,           \* OrderBook.asks
    order_map,      \* OrderBook.order_map: id -> (price, is_buy)
    total_orders,   \* OrderBook.total_orders
    total_trades,   \* OrderBook.total_trades
    total_volume,   \* OrderBook.total_volume
    next_id,        \* the caller's id counter: ids below it have been submitted
    n_modify        \* the number of modify_order calls made so far

vars == <<bids, asks, order_map, total_orders, total_trades, total_volume,
          next_id, n_modify>>

\* An Order object as OrderBook uses it: id, price, quantity, is_buy.
Order(id, is_buy, price, quantity) ==
    [id |-> id, is_buy |-> is_buy, price |-> price, quantity |-> quantity]

\* A Trade: resting id, incoming id, execution price, executed quantity.
Trade(resting, incoming, quantity) ==
    [resting_id |-> resting.id, incoming_id |-> incoming.id,
     price |-> resting.price, quantity |-> quantity]

\* ----------------------------------------------------------- dict helpers
\* The empty dict.
EmptyDict == [k \in {} |-> 0]

\* del d[k]
DictDel(d, k) == [j \in (DOMAIN d) \ {k} |-> d[j]]

\* d[k] = v
DictSet(d, k, v) == [j \in (DOMAIN d) \cup {k} |-> IF j = k THEN v ELSE d[j]]

\* defaultdict(deque): d[k] of a missing key is a new empty deque.
DequeAt(d, k) == IF k \in DOMAIN d THEN d[k] ELSE <<>>

\* The places <<price key, position>> of the order with this id in a side.
Locate(book, order_id) ==
    {pi \in (DOMAIN book) \X (1..MaxOrders) :
        /\ pi[2] <= Len(book[pi[1]])
        /\ book[pi[1]][pi[2]].id = order_id}

Minimum(S) == CHOOSE x \in S : \A y \in S : x <= y
Maximum(S) == CHOOSE x \in S : \A y \in S : x >= y
Min2(a, b) == IF a <= b THEN a ELSE b

\* ---------------------------------------------------------- initial state
Init ==
    /\ bids = EmptyDict
    /\ asks = EmptyDict
    /\ order_map = EmptyDict
    /\ total_orders = 0
    /\ total_trades = 0
    /\ total_volume = 0
    /\ next_id = 1
    /\ n_modify = 0

\* ------------------------------------------------------- matching engine
\* The best price level of the side an incoming order is matched against:
\* the lowest ask for a buy, the highest bid for a sell.
BestLevel(is_buy, book) ==
    IF is_buy THEN Minimum(DOMAIN book) ELSE Maximum(DOMAIN book)

\* Crossability of a level: a buy crosses an ask level when its price is at
\* least the level's, a sell crosses a bid level when its price is at most
\* the level's; a market order crosses every level.
Crosses(order, is_market, level) ==
    \/ is_market
    \/ IF order.is_buy THEN order.price >= level ELSE order.price <= level

\* One visit of the resting order at the head of the best level: the fill is
\* min(incoming remaining, resting remaining), a Trade is emitted at the
\* resting order's price, both quantities are decremented, a resting order
\* that reaches 0 leaves its level and the index, and a level left empty is
\* removed from the side.
MatchStep(m, level) ==
    LET queue   == m.book[level]
        resting == Head(queue)
        qty     == Min2(m.order.quantity, resting.quantity)
        left    == [resting EXCEPT !.quantity = @ - qty]
        rest    == IF left.quantity = 0 THEN Tail(queue)
                   ELSE <<left>> \o Tail(queue)
    IN [order     |-> [m.order EXCEPT !.quantity = @ - qty],
        book      |-> IF rest = <<>> THEN DictDel(m.book, level)
                      ELSE DictSet(m.book, level, rest),
        order_map |-> IF left.quantity = 0 THEN DictDel(m.order_map, resting.id)
                      ELSE m.order_map,
        trades    |-> Append(m.trades, Trade(resting, m.order, qty))]

\* The walk over the opposite side, best price first and FIFO within a
\* level, until the incoming quantity is 0, the best level is not crossable
\* or the side is empty.  A level found empty is removed and the walk goes on.
RECURSIVE MatchLoop(_, _)
MatchLoop(m, is_market) ==
    IF m.order.quantity <= 0 \/ DOMAIN m.book = {} THEN m
    ELSE LET level == BestLevel(m.order.is_buy, m.book) IN
         IF ~Crosses(m.order, is_market, level) THEN m
         ELSE IF m.book[level] = <<>>
         THEN MatchLoop([m EXCEPT !.book = DictDel(@, level)], is_market)
         ELSE MatchLoop(MatchStep(m, level), is_market)

\* MatchingEngine.match_order(order, book, order_map): the trades, with the
\* order, the side book and the index as the call leaves them.
match_order(order, book, omap) ==
    MatchLoop([order |-> order, book |-> book, order_map |-> omap,
               trades |-> <<>>], FALSE)

\* The same walk for a market order, which crosses every level.
match_market(order, book, omap) ==
    MatchLoop([order |-> order, book |-> book, order_map |-> omap,
               trades |-> <<>>], TRUE)

RECURSIVE SumQty(_)
SumQty(ts) == IF ts = <<>> THEN 0 ELSE Head(ts).quantity + SumQty(Tail(ts))

\* -------------------------------------------------------------- add_order
\* Rest with appendleft for append: the incoming order rests at the head.
RestAtHead(book, order) ==
    DictSet(book, order.price, <<order>> \o DequeAt(book, order.price))

\* The incoming order rests at the tail of the queue under its price key.
Rest(book, order) ==
    DictSet(book, order.price, Append(DequeAt(book, order.price), order))

\* Rests with the test left out: the order is put in the book whatever is
\* left of it.
RestsAlways(order) == TRUE

\* "if order.quantity > 0": the order, as matching left it, goes in the book.
Rests(order) == order.quantity > 0

\* OrderBook.add_order(order): the book as the call leaves it, and the
\* trades it returns.
add_order_call(order) ==
    LET m     == IF order.is_buy THEN match_order(order, asks, order_map)
                 ELSE match_order(order, bids, order_map)
        rests == Rests(m.order)
    IN [bids |-> IF order.is_buy
                 THEN (IF rests THEN Rest(bids, m.order) ELSE bids)
                 ELSE m.book,
        asks |-> IF order.is_buy
                 THEN m.book
                 ELSE (IF rests THEN Rest(asks, m.order) ELSE asks),
        order_map |-> IF rests
                      THEN DictSet(m.order_map, order.id,
                                   [price |-> order.price, is_buy |-> order.is_buy])
                      ELSE m.order_map,
        total_trades |-> total_trades + Len(m.trades),
        total_volume |-> total_volume + SumQty(m.trades),
        total_orders |-> IF rests THEN total_orders + 1 ELSE total_orders,
        order |-> m.order,
        ret |-> m.trades]

\* The caller submits a new order under the next unused id.
add_order(is_buy, price, quantity) ==
    /\ next_id <= MaxOrders
    /\ LET c == add_order_call(Order(next_id, is_buy, price, quantity))
       IN /\ bids' = c.bids
          /\ asks' = c.asks
          /\ order_map' = c.order_map
          /\ total_trades' = c.total_trades
          /\ total_volume' = c.total_volume
          /\ total_orders' = c.total_orders
    /\ next_id' = next_id + 1
    /\ UNCHANGED n_modify

\* ----------------------------------------------------------- cancel_order
\* side[price][0] == order_id compares an Order (a dataclass) with an int:
\* the generated __eq__ answers only for another Order, so it is False.
OrderEqualsId(order, order_id) == FALSE

\* OrderBook.cancel_order(order_id): the book as the call leaves it, and
\* what it raises (nothing) and the value it returns.
cancel_order_call(order_id) ==
    IF order_id \notin DOMAIN order_map
    THEN [bids |-> bids, asks |-> asks, order_map |-> order_map,
          raises |-> "", ret |-> FALSE]
    ELSE LET price  == order_map[order_id].price
             is_buy == order_map[order_id].is_buy
             side   == IF is_buy THEN bids ELSE asks
             eager  == /\ price \in DOMAIN side
                       /\ side[price] # <<>>
                       /\ OrderEqualsId(side[price][1], order_id)
             popped == IF Tail(side[price]) = <<>> THEN DictDel(side, price)
                       ELSE DictSet(side, price, Tail(side[price]))
         IN [bids |-> IF eager /\ is_buy THEN popped ELSE bids,
             asks |-> IF eager /\ ~is_buy THEN popped ELSE asks,
             order_map |-> DictDel(order_map, order_id),
             raises |-> "", ret |-> TRUE]

cancel_order(order_id) ==
    /\ LET c == cancel_order_call(order_id)
       IN /\ bids' = c.bids
          /\ asks' = c.asks
          /\ order_map' = c.order_map
    /\ UNCHANGED <<total_orders, total_trades, total_volume, next_id, n_modify>>

\* ------------------------------------- CancelModifyMixin.cancel_order
\* deque.remove(o): the queue without its element at position i.
RemoveAt(q, i) == SubSeq(q, 1, i - 1) \o SubSeq(q, i + 1, Len(q))

\* CancelModifyMixin.cancel_order(order_id), the scanning cancel: the first
\* order of this id found in bids, then in asks, is taken out of its queue
\* (the key stays, order_map is not touched); OrderNotFound if there is none.
mixin_cancel_order_call(order_id) ==
    IF Locate(bids, order_id) # {}
    THEN LET pi == CHOOSE x \in Locate(bids, order_id) : TRUE IN
         [bids |-> DictSet(bids, pi[1], RemoveAt(bids[pi[1]], pi[2])),
          asks |-> asks, raises |-> "", ret |-> TRUE]
    ELSE IF Locate(asks, order_id) # {}
    THEN LET pi == CHOOSE x \in Locate(asks, order_id) : TRUE IN
         [bids |-> bids,
          asks |-> DictSet(asks, pi[1], RemoveAt(asks[pi[1]], pi[2])),
          raises |-> "", ret |-> TRUE]
    ELSE [bids |-> bids, asks |-> asks, raises |-> "OrderNotFound", ret |-> FALSE]

mixin_cancel_order(order_id) ==
    /\ LET c == mixin_cancel_order_call(order_id)
       IN /\ bids' = c.bids
          /\ asks' = c.asks
    /\ UNCHANGED <<order_map, total_orders, total_trades, total_volume, next_id,
                   n_modify>>

\* ----------------------------------------------------------- modify_order
\* o.price = new_price / o.quantity = new_quantity, each when given.
Modified(o, new_price, new_quantity) ==
    [o EXCEPT !.price = IF new_price # None THEN new_price[1] ELSE @,
              !.quantity = IF new_quantity # None THEN new_quantity[1] ELSE @]

\* ModifyAt with the order taken out and put back at the tail of its queue.
ModifyAtTail(book, pi, new_price, new_quantity) ==
    [book EXCEPT ![pi[1]] =
        Append(RemoveAt(@, pi[2]), Modified(@[pi[2]], new_price, new_quantity))]

\* The side with the order at place pi mutated in place.
ModifyAt(book, pi, new_price, new_quantity) ==
    [book EXCEPT ![pi[1]][pi[2]] = Modified(@, new_price, new_quantity)]

\* CancelModifyMixin.modify_order(order_id, new_price, new_quantity): the
\* sides as the call leaves them, what it raises, and the order it returns.
modify_order_call(order_id, new_price, new_quantity) ==
    IF Locate(asks, order_id) # {}
    THEN LET pi == CHOOSE x \in Locate(asks, order_id) : TRUE
             a  == ModifyAt(asks, pi, new_price, new_quantity)
         IN [bids |-> bids, asks |-> a, raises |-> "", ret |-> <<a[pi[1]][pi[2]]>>]
    ELSE IF Locate(bids, order_id) # {}
    THEN LET pi == CHOOSE x \in Locate(bids, order_id) : TRUE
             b  == ModifyAt(bids, pi, new_price, new_quantity)
         IN [bids |-> b, asks |-> asks, raises |-> "", ret |-> <<b[pi[1]][pi[2]]>>]
    ELSE [bids |-> bids, asks |-> asks, raises |-> "OrderNotFound", ret |-> <<>>]

modify_order(order_id, new_price, new_quantity) ==
    /\ n_modify < MaxModifies
    /\ n_modify' = n_modify + 1
    /\ LET c == modify_order_call(order_id, new_price, new_quantity)
       IN /\ bids' = c.bids
          /\ asks' = c.asks
    /\ UNCHANGED <<order_map, total_orders, total_trades, total_volume, next_id>>

\* --------------------------------------------------- execute_market_order
\* The fills (price, quantity) of a market order, in matching order.
Fills(trades) ==
    [i \in 1..Len(trades) |->
        [price |-> trades[i].price, quantity |-> trades[i].quantity]]

\* execute_market_order(side, quantity): the book as the call leaves it,
\* the trades made and the fills returned.  A market order has no id and no
\* limit price (0 stands for both).
execute_market_order_call(is_buy, quantity) ==
    LET order == Order(0, is_buy, 0, quantity)
        m     == IF is_buy THEN match_market(order, asks, order_map)
                 ELSE match_market(order, bids, order_map)
    IN [bids |-> IF is_buy THEN bids ELSE m.book,
        asks |-> IF is_buy THEN m.book ELSE asks,
        order_map |-> m.order_map,
        order |-> m.order,
        trades |-> m.trades,
        ret |-> Fills(m.trades)]

execute_market_order(is_buy, quantity) ==
    /\ LET c == execute_market_order_call(is_buy, quantity)
       IN /\ bids' = c.bids
          /\ asks' = c.asks
          /\ order_map' = c.order_map
    /\ UNCHANGED <<total_orders, total_trades, total_volume, next_id, n_modify>>

\* ----------------------------------------------------------------- queries
\* OrderBook.get_best_bid(): the highest key of bids, None if bids is empty.
get_best_bid == IF DOMAIN bids = {} THEN None ELSE Some(Maximum(DOMAIN bids))

\* OrderBook.get_best_ask(): the lowest key of asks, None if asks is empty.
get_best_ask == IF DOMAIN asks = {} THEN None ELSE Some(Minimum(DOMAIN asks))

\* OrderBook.get_spread(): best ask - best bid, None if either is None.
get_spread ==
    IF get_best_bid = None \/ get_best_ask = None THEN None
    ELSE Some(get_best_ask[1] - get_best_bid[1])

\* A float that is a whole number of halves: num / 2.
Halves(num) == [num |-> num, den |-> 2]

\* OrderBook.get_mid_price(): (best bid + best ask) / 2.0, None if either is
\* None.
get_mid_price ==
    IF get_best_bid = None \/ get_best_ask = None THEN None
    ELSE Some(Halves(get_best_bid[1] + get_best_ask[1]))

\* sorted(keys): the keys in ascending order.
RECURSIVE SortedAsc(_)
SortedAsc(S) ==
    IF S = {} THEN <<>> ELSE <<Minimum(S)>> \o SortedAsc(S \ {Minimum(S)})

\* sorted(keys, reverse=True): the keys in descending order.
RECURSIVE SortedDesc(_)
SortedDesc(S) ==
    IF S = {} THEN <<>> ELSE <<Maximum(S)>> \o SortedDesc(S \ {Maximum(S)})

\* seq[:n] for n >= 0.
Take(seq, n) == SubSeq(seq, 1, Min2(n, Len(seq)))

\* sum(order.quantity for order in queue if order.id in self.order_map)
ActiveQty(queue) ==
    SumQty(SelectSeq(queue, LAMBDA order : order.id \in DOMAIN order_map))

\* The (price, total_qty) pairs of the given prices of a side, in their
\* order, those with total_qty > 0 only.
RECURSIVE DepthSide(_, _)
DepthSide(book, prices) ==
    IF prices = <<>> THEN <<>>
    ELSE LET price     == Head(prices)
             total_qty == ActiveQty(book[price])
         IN (IF total_qty > 0 THEN <<(<<price, total_qty>>)>> ELSE <<>>)
            \o DepthSide(book, Tail(prices))

\* The numbers of levels a caller asks get_depth for.
Levels == 0..MaxPrice

\* OrderBook.get_depth(levels)
get_depth(levels) ==
    [bids |-> DepthSide(bids, Take(SortedDesc(DOMAIN bids), levels)),
     asks |-> DepthSide(asks, Take(SortedAsc(DOMAIN asks), levels))]

\* ------------------------------------------------------------------- spec
Next ==
    \/ \E is_buy \in BOOLEAN, price \in Prices, quantity \in Qtys :
          add_order(is_buy, price, quantity)
    \/ \E order_id \in Ids : cancel_order(order_id)
    \/ \E order_id \in Ids, new_price \in NewPrices, new_quantity \in NewQtys :
          modify_order(order_id, new_price, new_quantity)
    \/ \E is_buy \in BOOLEAN, quantity \in Qtys :
          execute_market_order(is_buy, quantity)

Spec == Init /\ [][Next]_vars

\* The book whose cancel_order is the mixin's scanning cancel (the variant
\* the index-driven cancel of OrderBook supersedes).
NextScan ==
    \/ \E is_buy \in BOOLEAN, price \in Prices, quantity \in Qtys :
          add_order(is_buy, price, quantity)
    \/ \E order_id \in Ids : mixin_cancel_order(order_id)
    \/ \E order_id \in Ids, new_price \in NewPrices, new_quantity \in NewQtys :
          modify_order(order_id, new_price, new_quantity)
    \/ \E is_buy \in BOOLEAN, quantity \in Qtys :
          execute_market_order(is_buy, quantity)

SpecScan == Init /\ [][NextScan]_vars

\* ------------------------------------------------- vocabulary of the claims
\* The queue q without the order of this id, the others in their order.
Without(q, order_id) == SelectSeq(q, LAMBDA o : o.id # order_id)

\* The number of queue places, over both sides, that hold this id.
PlaceCount(order_id) ==
    Cardinality(Locate(bids, order_id)) + Cardinality(Locate(asks, order_id))

\* A side holds no price key with an empty queue.
NoEmptyLevel(book) == \A p \in DOMAIN book : book[p] # <<>>

\* The order of this id is the only order in the queue under this key.
AloneAt(book, price, order_id) ==
    /\ price \in DOMAIN book
    /\ Len(book[price]) = 1
    /\ book[price][1].id = order_id

\* ------------------------------------------------------------------ claims
\* C1 (as claimed): index consistency.  An id is a key of order_map if and
\* only if an order with that id sits in exactly one price level queue, and
\* that queue is on the side and under the price order_map records for it.
C1_IndexConsistency ==
    \A id \in Ids :
        /\ id \in DOMAIN order_map =>
              /\ PlaceCount(id) = 1
              /\ \E pi \in Locate(IF order_map[id].is_buy THEN bids ELSE asks, id) :
                    pi[1] = order_map[id].price
        /\ PlaceCount(id) >= 1 => id \in DOMAIN order_map

\* C5 (as claimed): in every reachable state, cancel_order(id) with an id
\* that is not resting (not in the index: never added, already cancelled or
\* fully filled) fails with OrderNotFound and leaves bids, asks and
\* order_map as they were.
C5_CancelAbsentRaises ==
    \A id \in Ids :
        id \notin DOMAIN order_map =>
            LET c == cancel_order_call(id) IN
            /\ c.raises = "OrderNotFound"
            /\ c.bids = bids /\ c.asks = asks /\ c.order_map = order_map

\* C6 (as claimed): cancel_order(id) on a resting order removes it from its
\* queue and from order_map and leaves every other order, and the order of
\* the others in each queue, as it was.
C6_CancelRemoves ==
    [][\A id \in Ids :
          (id \in DOMAIN order_map /\ cancel_order(id)) =>
              /\ \A p \in Prices :
                    /\ DequeAt(bids', p) = Without(DequeAt(bids, p), id)
                    /\ DequeAt(asks', p) = Without(DequeAt(asks, p), id)
              /\ order_map' = DictDel(order_map, id)]_vars

\* C7 (as claimed): level cleanup.  No side ever holds a price key with an
\* empty queue, and cancelling the last order at a price removes the key.
C7_LevelCleanup ==
    /\ NoEmptyLevel(bids) /\ NoEmptyLevel(asks)
    /\ [][/\ NoEmptyLevel(bids') /\ NoEmptyLevel(asks')
          /\ \A id \in Ids :
                (id \in DOMAIN order_map /\ cancel_order(id)) =>
                    LET price == order_map[id].price IN
                    /\ AloneAt(bids, price, id) => price \notin DOMAIN bids'
                    /\ AloneAt(asks, price, id) => price \notin DOMAIN asks']_vars

\* The places <<price key, position>> of a side, and the orders there.
Entries(book) ==
    {pi \in (DOMAIN book) \X (1..MaxOrders) : pi[2] <= Len(book[pi[1]])}
OrdersOf(book) == {book[pi[1]][pi[2]] : pi \in Entries(book)}

\* The resting orders of a side: those in its queues whose id is indexed.
RestingOf(book) == {o \in OrdersOf(book) : o.id \in DOMAIN order_map}

\* The quantity the trades before the k-th fill against this resting id.
FilledBefore(ts, k, order_id) ==
    SumQty(SelectSeq(SubSeq(ts, 1, k - 1), LAMBDA t : t.resting_id = order_id))

\* The side an incoming order is matched against.
Opposite(is_buy) == IF is_buy THEN asks ELSE bids

\* C8 (as claimed): modify_order(id, new_price) with new_price different
\* from the order's price takes the order out of the queue of its old level
\* (deleting the level when that leaves it empty), appends it at the tail of
\* the queue for new_price and sets the price order_map records for id.
C8_ModifyPriceRelocates ==
    [][\A id \in Ids, np \in Prices, nq \in NewQtys :
          \A is_buy \in BOOLEAN :
              LET side  == IF is_buy THEN bids ELSE asks
                  side2 == IF is_buy THEN bids' ELSE asks'
              IN \A pi \in Locate(side, id) :
                    (/\ side[pi[1]][pi[2]].price # np
                     /\ modify_order(id, Some(np), nq)) =>
                        /\ np \in DOMAIN side2
                        /\ Locate(side2, id) = {<<np, Len(side2[np])>>}
                        /\ pi[1] # np =>
                              /\ DequeAt(side2, pi[1]) = Without(side[pi[1]], id)
                              /\ pi[1] \in DOMAIN side2 => side2[pi[1]] # <<>>
                        /\ id \in DOMAIN order_map' => order_map'[id].price = np]_vars

\* C9 (as claimed): modify_order(id, new_quantity = q) with q <= 0 acts as
\* cancel_order(id): afterwards the order is in no queue, id is not in
\* order_map, and no order with quantity <= 0 rests in the book.
C9_ModifyToZeroCancels ==
    [][\A id \in Ids, np \in NewPrices, q \in (0 - NegQty)..0 :
          (PlaceCount(id) >= 1 /\ modify_order(id, np, Some(q))) =>
              /\ Locate(bids', id) = {} /\ Locate(asks', id) = {}
              /\ id \notin DOMAIN order_map'
              /\ \A o \in OrdersOf(bids') \cup OrdersOf(asks') : o.quantity > 0]_vars

\* C10 (as claimed): in every reachable state, modify_order(id, ...) with an
\* id that is not resting (not in the index: never added, cancelled by
\* cancel_order, or fully filled) fails with OrderNotFound and leaves bids
\* and asks as they were (it never writes order_map).
C10_ModifyAbsentRaises ==
    \A id \in Ids, np \in NewPrices, nq \in NewQtys :
        id \notin DOMAIN order_map =>
            LET c == modify_order_call(id, np, nq) IN
            /\ c.raises = "OrderNotFound"
            /\ c.bids = bids /\ c.asks = asks

\* Price priority over one matching pass: no trade is made against a resting
\* order B while a resting order A of the same side with a strictly better
\* price, which the incoming order also crosses, has quantity left.
PricePriority(order, is_market, book, ts) ==
    \A k \in 1..Len(ts) : \A A \in RestingOf(book), B \in RestingOf(book) :
        (/\ B.id = ts[k].resting_id
         /\ IF order.is_buy THEN A.price < B.price ELSE A.price > B.price
         /\ Crosses(order, is_market, A.price)
         /\ Crosses(order, is_market, B.price)) =>
            ~(A.quantity - FilledBefore(ts, k, A.id) > 0)

\* C2 (as claimed): price priority holds of every add_order and every
\* execute_market_order, whichever of A and B was admitted first.
C2_PricePriority ==
    [][/\ \A is_buy \in BOOLEAN, price \in Prices, quantity \in Qtys :
             add_order(is_buy, price, quantity) =>
                 LET order == Order(next_id, is_buy, price, quantity) IN
                 PricePriority(order, FALSE, Opposite(is_buy),
                               add_order_call(order).ret)
       /\ \A is_buy \in BOOLEAN, quantity \in Qtys :
             execute_market_order(is_buy, quantity) =>
                 PricePriority(Order(0, is_buy, 0, quantity), TRUE, Opposite(is_buy),
                               execute_market_order_call(is_buy, quantity).trades)]_vars

\* Quantity conservation over one matching pass: every trade quantity is
\* positive and is the minimum of what the incoming order and the resting
\* order have left before it, the incoming order ends with its quantity less
\* the trades and not below 0, and every resting order traded against ends
\* with its quantity less its trades, not below 0 (gone from the side at 0).
Conservation(order, left, book, book2, ts) ==
    /\ \A k \in 1..Len(ts) :
          /\ ts[k].quantity > 0
          /\ \E o \in OrdersOf(book) :
                /\ o.id = ts[k].resting_id
                /\ ts[k].quantity =
                      Min2(order.quantity - SumQty(SubSeq(ts, 1, k - 1)),
                           o.quantity - FilledBefore(ts, k, o.id))
                /\ LET after == o.quantity - FilledBefore(ts, Len(ts) + 1, o.id) IN
                   /\ after >= 0
                   /\ IF after = 0 THEN Locate(book2, o.id) = {}
                      ELSE \E o2 \in OrdersOf(book2) :
                              o2.id = o.id /\ o2.quantity = after
    /\ left.quantity = order.quantity - SumQty(ts)
    /\ left.quantity >= 0
    /\ SumQty(ts) <= order.quantity

\* C4 (as claimed): quantity conservation holds of every add_order and every
\* execute_market_order.
C4_QuantityConservation ==
    [][/\ \A is_buy \in BOOLEAN, price \in Prices, quantity \in Qtys :
             add_order(is_buy, price, quantity) =>
                 LET order == Order(next_id, is_buy, price, quantity)
                     c     == add_order_call(order)
                 IN Conservation(order, c.order, Opposite(is_buy),
                                 IF is_buy THEN c.asks ELSE c.bids, c.ret)
       /\ \A is_buy \in BOOLEAN, quantity \in Qtys :
             execute_market_order(is_buy, quantity) =>
                 LET c == execute_market_order_call(is_buy, quantity) IN
                 Conservation(Order(0, is_buy, 0, quantity), c.order, Opposite(is_buy),
                              IF is_buy THEN c.asks ELSE c.bids, c.trades)]_vars

\* Time priority over one matching pass, for resting orders A and B of one
\* price, A admitted before B (ids are handed out in admission order), each
\* under the key of its own price (modify_order moves no order between
\* queues, so an order whose price it changed is the one that is not): no
\* trade is made against B while A has quantity left, and the trades list
\* A's fill before B's.
TimePriority(book, ts) ==
    \A ea \in Entries(book), eb \in Entries(book) :
        LET A == book[ea[1]][ea[2]]
            B == book[eb[1]][eb[2]]
        IN (/\ A.id \in DOMAIN order_map /\ B.id \in DOMAIN order_map
            /\ A.price = B.price /\ A.id < B.id
            /\ A.price = ea[1] /\ B.price = eb[1]) =>
               /\ \A k \in 1..Len(ts) :
                     ts[k].resting_id = B.id =>
                         ~(A.quantity - FilledBefore(ts, k, A.id) > 0)
               /\ \A i \in 1..Len(ts), j \in 1..Len(ts) :
                     (ts[i].resting_id = A.id /\ ts[j].resting_id = B.id) => i < j

\* C3: in every reachable state, every add_order and every
\* execute_market_order the caller can make next keeps time priority: among
\* resting orders of one price and side, neither relocated, the one admitted
\* first is filled first, and its trade comes first in the returned list.
C3_TimePriority ==
    /\ next_id <= MaxOrders =>
          \A is_buy \in BOOLEAN, price \in Prices, quantity \in Qtys :
              TimePriority(Opposite(is_buy),
                           add_order_call(Order(next_id, is_buy, price, quantity)).ret)
    /\ \A is_buy \in BOOLEAN, quantity \in Qtys :
          TimePriority(Opposite(is_buy),
                       execute_market_order_call(is_buy, quantity).trades)

\* C3's case has happened: three orders were admitted and none modified; the
\* first two rested and the third did not; two trades of one unit each were
\* made, and order 2 is left alone at the best ask with one unit.  Both
\* trades are then the third order's, against orders 1 and 2; order 2 being
\* only partly filled at the lowest price, order 1 was at that price too and
\* was filled ahead of it.
C3_Witness ==
    /\ next_id = 4 /\ n_modify = 0
    /\ total_orders = 2 /\ total_trades = 2 /\ total_volume = 2
    /\ bids = EmptyDict
    /\ DOMAIN asks = {1} /\ asks[1] = <<Order(2, FALSE, 1, 1)>>
    /\ DOMAIN order_map = {2}

\* C11: every add_order(order) leaves the book as follows, r being the
\* order's quantity less the quantities of the trades returned.  If r > 0 the
\* order, with quantity r, is the new tail of the queue under order.price on
\* its own side (a new queue if the key was absent), the other queues of that
\* side are as they were, and order_map records (price, side) under its id.
\* If r = 0 the order is in no queue and its id is not in order_map.  If no
\* price level of the opposite side is crossable, no trade is returned, the
\* opposite side is as it was and the order rests with its whole quantity.
C11_AddRestsResidual ==
    [][\A is_buy \in BOOLEAN, price \in Prices, quantity \in Qtys :
          add_order(is_buy, price, quantity) =>
              LET order == Order(next_id, is_buy, price, quantity)
                  ret   == add_order_call(order).ret
                  r     == quantity - SumQty(ret)
                  own   == IF is_buy THEN bids ELSE asks
                  own2  == IF is_buy THEN bids' ELSE asks'
                  opp2  == IF is_buy THEN asks' ELSE bids'
              IN /\ r >= 0
                 /\ r > 0 =>
                       /\ price \in DOMAIN own2
                       /\ own2[price] =
                             Append(DequeAt(own, price), Order(next_id, is_buy, price, r))
                       /\ \A p \in Prices \ {price} : DequeAt(own2, p) = DequeAt(own, p)
                       /\ DOMAIN own2 = DOMAIN own \cup {price}
                       /\ Locate(opp2, next_id) = {}
                       /\ next_id \in DOMAIN order_map'
                       /\ order_map'[next_id] = [price |-> price, is_buy |-> is_buy]
                 /\ r = 0 =>
                       /\ Locate(bids', next_id) = {} /\ Locate(asks', next_id) = {}
                       /\ own2 = own
                       /\ next_id \notin DOMAIN order_map'
                 /\ (\A p \in DOMAIN Opposite(is_buy) : ~Crosses(order, FALSE, p)) =>
                       /\ ret = <<>>
                       /\ opp2 = Opposite(is_buy)
                       /\ r = quantity]_vars

\* C11's case has happened: a sell of 1 at price 1 rested, a buy of 2 at
\* price 1 traded 1 against it, and the buy's residual 1 rests alone in bids
\* under its price, indexed under its id.
C11_Witness ==
    /\ next_id = 3 /\ n_modify = 0
    /\ total_trades = 1 /\ total_volume = 1
    /\ asks = EmptyDict
    /\ DOMAIN bids = {1} /\ bids[1] = <<Order(2, TRUE, 1, 1)>>
    /\ DOMAIN order_map = {2}
    /\ order_map[2] = [price |-> 1, is_buy |-> TRUE]

\* Every trade of one matching pass is made at the price of the resting
\* order it is made against, and against a resting order whose price the
\* incoming order crosses (a market order crosses every price).
TradesAtCrossedRestingPrice(order, is_market, book, ts) ==
    \A k \in 1..Len(ts) :
        \E o \in OrdersOf(book) :
            /\ o.id = ts[k].resting_id
            /\ ts[k].price = o.price
            /\ Crosses(order, is_market, o.price)

\* C12 (as claimed): every trade of every add_order and every
\* execute_market_order has the resting order's price as its price, and a
\* limit order trades only against a resting order whose price it crosses
\* (buy price >= resting ask price, sell price <= resting bid price).
C12_TradeAtRestingPrice ==
    [][/\ \A is_buy \in BOOLEAN, price \in Prices, quantity \in Qtys :
             add_order(is_buy, price, quantity) =>
                 LET order == Order(next_id, is_buy, price, quantity) IN
                 TradesAtCrossedRestingPrice(order, FALSE, Opposite(is_buy),
                                             add_order_call(order).ret)
       /\ \A is_buy \in BOOLEAN, quantity \in Qtys :
             execute_market_order(is_buy, quantity) =>
                 TradesAtCrossedRestingPrice(
                     Order(0, is_buy, 0, quantity), TRUE, Opposite(is_buy),
                     execute_market_order_call(is_buy, quantity).trades)]_vars

\* The live orders of a queue: those whose id is in order_map (neither
\* cancelled nor fully filled), in queue order.
Live(q) == SelectSeq(q, LAMBDA o : o.id \in DOMAIN order_map)

\* The ids of the orders in the queues of a side.
IdsOf(book) == {o.id : o \in OrdersOf(book)}

\* The quantity of the live orders in the queues under the keys S of a side.
RECURSIVE LiveQtyOver(_, _)
LiveQtyOver(book, S) ==
    IF S = {} THEN 0
    ELSE LET p == CHOOSE x \in S : TRUE
         IN SumQty(Live(book[p])) + LiveQtyOver(book, S \ {p})

\* The trades of one pass go from the best price outward: never a trade at a
\* better price after one at a worse price.
BestPriceOutward(is_buy, ts) ==
    \A i \in 1..Len(ts), j \in 1..Len(ts) :
        i < j => IF is_buy THEN ts[i].price <= ts[j].price
                 ELSE ts[i].price >= ts[j].price

\* C13 (as claimed): in every reachable state, every execute_market_order
\* the caller can make fills against the opposite side from the best price
\* outward and first come first served within a price, fills in total
\* min(quantity, quantity resting live on the opposite side), leaves its own
\* side as it was, and adds no order to a queue and no id to order_map.
C13_MarketOrder ==
    \A is_buy \in BOOLEAN, quantity \in Qtys :
        LET c    == execute_market_order_call(is_buy, quantity)
            opp  == Opposite(is_buy)
            opp2 == IF is_buy THEN c.asks ELSE c.bids
            own  == IF is_buy THEN bids ELSE asks
            own2 == IF is_buy THEN c.bids ELSE c.asks
        IN /\ BestPriceOutward(is_buy, c.trades)
           /\ TimePriority(opp, c.trades)
           /\ SumQty(c.trades) = Min2(quantity, LiveQtyOver(opp, DOMAIN opp))
           /\ \A k \in 1..Len(c.ret) :
                 /\ c.ret[k].price = c.trades[k].price
                 /\ c.ret[k].quantity = c.trades[k].quantity
           /\ Len(c.ret) = Len(c.trades)
           /\ own2 = own
           /\ IdsOf(opp2) \subseteq IdsOf(opp)
           /\ DOMAIN c.order_map \subseteq DOMAIN order_map

\* The prices at which a live order of a side rests.
LivePrices(book) == {o.price : o \in RestingOf(book)}

\* C14 (as claimed): in every reachable state get_best_bid is the highest
\* price of a live buy order and get_best_ask the lowest price of a live sell
\* order, each None exactly when its side has no live order; get_spread and
\* get_mid_price are None exactly when some side has no live order, and
\* otherwise best ask - best bid and (best bid + best ask) / 2.
C14_BestPrices ==
    LET lb == LivePrices(bids)
        la == LivePrices(asks)
    IN /\ get_best_bid = IF lb = {} THEN None ELSE Some(Maximum(lb))
       /\ get_best_ask = IF la = {} THEN None ELSE Some(Minimum(la))
       /\ get_spread = IF lb = {} \/ la = {} THEN None
                       ELSE Some(Minimum(la) - Maximum(lb))
       /\ get_mid_price = IF lb = {} \/ la = {} THEN None
                          ELSE Some(Halves(Maximum(lb) + Minimum(la)))

\* The price keys of a side under which at least one live order is queued.
LiveLevels(book) == {p \in DOMAIN book : Live(book[p]) # <<>>}

\* The depth of a side as claimed: the first n live levels of the given
\* priority order, each with the quantity of its live orders.
DepthOf(book, sorted, n) ==
    LET best == Take(sorted, n)
    IN [i \in 1..Len(best) |-> <<best[i], SumQty(Live(book[best[i]]))>>]

\* C15 (as claimed): in every reachable state and for every n, get_depth(n)
\* is, per side, the min(n, L) best live price levels in priority order
\* (bids descending, asks ascending), L being the number of price levels of
\* the side with a live order, each with the sum of the quantities of its
\* live orders, and no quantity returned is 0.
C15_Depth ==
    \A n \in Levels :
        LET d == get_depth(n) IN
        /\ d.bids = DepthOf(bids, SortedDesc(LiveLevels(bids)), n)
        /\ d.asks = DepthOf(asks, SortedAsc(LiveLevels(asks)), n)
        /\ Len(d.bids) = Min2(n, Cardinality(LiveLevels(bids)))
        /\ Len(d.asks) = Min2(n, Cardinality(LiveLevels(asks)))
        /\ \A i \in 1..Len(d.bids) : d.bids[i][2] # 0
        /\ \A i \in 1..Len(d.asks) : d.asks[i][2] # 0

\* Every order in the queues of a side has quantity > 0 and has the key it
\* is queued under as its price.
PriceLevelInvariant(book) ==
    \A pi \in Entries(book) :
        /\ book[pi[1]][pi[2]].quantity > 0
        /\ book[pi[1]][pi[2]].price = pi[1]

\* C16 (as claimed): price level invariant.  In every reachable state every
\* order in the queue under price key p of bids or of asks has quantity > 0
\* and price p.
C16_PriceLevelInvariant ==
    PriceLevelInvariant(bids) /\ PriceLevelInvariant(asks)

\* The order at place pi of a side keeps its priority over the orders behind
\* it in its queue: no add_order and no execute_market_order the caller can
\* make trades against an order behind it while it has quantity left.
AheadOfThoseBehind(is_buy, pi) ==
    LET book == IF is_buy THEN bids ELSE asks
        A    == book[pi[1]][pi[2]]
        Kept(ts) ==
            \A k \in 1..Len(ts), j \in (pi[2] + 1)..Len(book[pi[1]]) :
                ts[k].resting_id = book[pi[1]][j].id =>
                    ~(A.quantity - FilledBefore(ts, k, A.id) > 0)
    IN /\ next_id <= MaxOrders =>
             \A price \in Prices, quantity \in Qtys :
                 Kept(add_order_call(Order(next_id, ~is_buy, price, quantity)).ret)
       /\ \A quantity \in Qtys :
             Kept(execute_market_order_call(~is_buy, quantity).trades)

\* Every live order with quantity left keeps its priority over the orders
\* behind it in its queue.
QueuePriority ==
    \A is_buy \in BOOLEAN :
        LET book == IF is_buy THEN bids ELSE asks IN
        \A pi \in Entries(book) :
            (/\ book[pi[1]][pi[2]].id \in DOMAIN order_map
             /\ book[pi[1]][pi[2]].quantity > 0) => AheadOfThoseBehind(is_buy, pi)

\* C17: modify_order(id, new_quantity = q) on a resting order, with q > 0
\* and the price left alone (new_price absent or the order's price), sets
\* the order's quantity to q and leaves it at its place in its queue, every
\* other order and order_map as they were; and in every reachable state, so
\* in the one it leaves, a live order with quantity left is filled before
\* every order behind it in its queue.
C17_ModifyQuantityKeepsPlace ==
    /\ []QueuePriority
    /\ [][\A id \in Ids, q \in Qtys, is_buy \in BOOLEAN :
             LET side   == IF is_buy THEN bids ELSE asks
                 side2  == IF is_buy THEN bids' ELSE asks'
                 other  == IF is_buy THEN asks ELSE bids
                 other2 == IF is_buy THEN asks' ELSE bids'
             IN \A pi \in Locate(side, id) :
                   \A np \in {None, Some(side[pi[1]][pi[2]].price)} :
                       (/\ id \in DOMAIN order_map
                        /\ modify_order(id, np, Some(q))) =>
                           /\ side2 = [side EXCEPT ![pi[1]][pi[2]].quantity = q]
                           /\ other2 = other
                           /\ order_map' = order_map]_vars

\* C17's case has happened: sell 1 was admitted with at most 2 units, lost 1
\* unit to buy 2 and has 2 units again, which only modify_order can have
\* given it; it is still at the head of its queue, ahead of sell 3.
C17_Witness ==
    /\ next_id = 4 /\ n_modify = 1
    /\ total_trades = 1 /\ total_volume = 1
    /\ bids = EmptyDict
    /\ DOMAIN asks = {1}
    /\ asks[1] = <<Order(1, FALSE, 1, 2), Order(3, FALSE, 1, 1)>>
    /\ DOMAIN order_map = {1, 3}

\* The ids whose cancel_order has succeeded and whose order is still in a
\* queue.  An id leaves order_map by a successful cancel_order or by a full
\* fill, and a full fill takes the order out of its queue in the same step,
\* so a queued order whose id is not in order_map is a cancelled one.
Cancelled == {id \in Ids : PlaceCount(id) >= 1 /\ id \notin DOMAIN order_map}

\* No trade of a pass is made against a cancelled order.
NoCancelledResting(ts) == \A k \in 1..Len(ts) : ts[k].resting_id \notin Cancelled

\* C18 (as claimed): a cancelled order never trades.  In every reachable
\* state, no add_order and no execute_market_order the caller can make
\* returns a trade or a fill whose resting order is one that cancel_order
\* has cancelled.
C18_CancelledNeverTrades ==
    /\ next_id <= MaxOrders =>
          \A is_buy \in BOOLEAN, price \in Prices, quantity \in Qtys :
              NoCancelledResting(
                  add_order_call(Order(next_id, is_buy, price, quantity)).ret)
    /\ \A is_buy \in BOOLEAN, quantity \in Qtys :
          NoCancelledResting(execute_market_order_call(is_buy, quantity).trades)

\* Both sides hold a live order and the highest price of a live buy order
\* is at or above the lowest price of a live sell order.
CrossedBook ==
    /\ LivePrices(bids) # {}
    /\ LivePrices(asks) # {}
    /\ Maximum(LivePrices(bids)) >= Minimum(LivePrices(asks))

\* C19 (as claimed): uncrossed book.  As long as no modify_order has been
\* called the book is not crossed, and the queries agree when both sides
\* hold a live order (get_best_bid < get_best_ask); and a step that takes a
\* book that is not crossed to one that is crossed is a modify_order.
C19_UncrossedBook ==
    /\ [](n_modify = 0 =>
            /\ ~CrossedBook
            /\ (LivePrices(bids) # {} /\ LivePrices(asks) # {}) =>
                  get_best_bid[1] < get_best_ask[1])
    /\ [][(~CrossedBook /\ CrossedBook') => n_modify' = n_modify + 1]_vars

\* C20 (as claimed): book statistics.  In every reachable state
\* total_orders is the number of ids in order_map; total_trades and
\* total_volume start at 0, every add_order adds to them the number of the
\* trades it returns and the sum of their quantities, and no other operation
\* changes them.
C20_Statistics ==
    /\ [](total_orders = Cardinality(DOMAIN order_map))
    /\ total_trades = 0 /\ total_volume = 0
    /\ [][IF next_id' # next_id
          THEN \E is_buy \in BOOLEAN, price \in Prices, quantity \in Qtys :
                  LET ret == add_order_call(Order(next_id, is_buy, price, quantity)).ret
                  IN /\ add_order(is_buy, price, quantity)
                     /\ total_trades' = total_trades + Len(ret)
                     /\ total_volume' = total_volume + SumQty(ret)
          ELSE UNCHANGED <<total_trades, total_volume>>]_vars

====
